---- MODULE Spec2Model ----
(***************************************************************************)
(* A state-machine model of qclib.qcsim (src/qclib/qclib.py): a register   *)
(* of nqbits qubits held as a dense amplitude vector, gate application     *)
(* (qgate) and projective measurement (qmeasure).                          *)
(*                                                                         *)
(* Numbers.  The code computes in floating complex numbers.  The model     *)
(* computes exactly: a complex number is a pair <<re, im>> of integers, a  *)
(* matrix or vector carries one positive integer den and stands for        *)
(* (integer entries) / sqrt(den).  So Hadamard is [[1,1],[1,-1]] with      *)
(* den = 2, and dividing the amplitudes by sqrt(prob) is a change of den.  *)
(* A probability is a fraction num / den.  NaN, which numpy produces for   *)
(* 0/0 and which every later product and comparison propagates, is kept    *)
(* as the set of vector positions that hold it.                            *)
(***************************************************************************)
EXTENDS Integers, Sequences, FiniteSets, TLC

\* Bounds of the model.
MaxN == 3
MaxSeqN == 2
MaxSteps == 2
TossDen == 4

\* 1/maxerr and 1/maxproberr of the constructor.
MaxErrInv == 1000000
MaxProbErrInv == 1000000

-----------------------------------------------------------------------------
\* Complex integers.

CZero == <<0, 0>>
COne == <<1, 0>>
CI == <<0, 1>>
CNeg(a) == <<0 - a[1], 0 - a[2]>>
CAdd(a, b) == <<a[1] + b[1], a[2] + b[2]>>
CMul(a, b) == <<a[1] * b[1] - a[2] * b[2], a[1] * b[2] + a[2] * b[1]>>
CConj(a) == <<a[1], 0 - a[2]>>
CAbs2(a) == a[1] * a[1] + a[2] * a[2]
Abs(x) == IF x < 0 THEN 0 - x ELSE x

\* |num| / den > 1 / tolInv, with num2 = |num|^2, as np.absolute(x) > maxerr
\* decides it.  The product num2 * tolInv^2 is not formed: for den <= tolInv
\* it is at least tolInv^2 >= den^2 as soon as num2 >= 1.
ExceedsTol(num2, den, tolInv) ==
    IF num2 = 0 THEN FALSE
    ELSE IF den <= tolInv THEN ~(num2 = 1 /\ den = tolInv)
    ELSE num2 * tolInv > (den \div tolInv) * den

RECURSIVE Gcd(_, _)
Gcd(a, b) == IF b = 0 THEN a ELSE Gcd(b, a % b)

RECURSIVE SumTo(_, _)
\* f[0] + ... + f[k]
SumTo(f, k) == IF k < 0 THEN 0 ELSE f[k] + SumTo(f, k - 1)

RECURSIVE CSumTo(_, _)
CSumTo(f, k) == IF k < 0 THEN CZero ELSE CAdd(f[k], CSumTo(f, k - 1))

\* bit b of i: (i >> b) & 0x1
Bit(i, b) == (i \div (2 ^ b)) % 2

-----------------------------------------------------------------------------
\* Matrices: r rows, c columns, entries m[i][j] (from 0), scale den.

Mat(r, c, den, m) == [r |-> r, c |-> c, den |-> den, m |-> m]

\* np.eye(d)
Eye(d) ==
    Mat(d, d, 1, [i \in 0 .. d - 1 |-> [j \in 0 .. d - 1 |-> IF i = j THEN COne ELSE CZero]])

\* np.kron(A, B)
Kron(A, B) ==
    Mat(A.r * B.r, A.c * B.c, A.den * B.den,
        [i \in 0 .. A.r * B.r - 1 |-> [j \in 0 .. A.c * B.c - 1 |->
            CMul(A.m[i \div B.r][j \div B.c], B.m[i % B.r][j % B.c])]])

\* A * B of numpy matrices; the caller has checked A.c = B.r.
MatMul(A, B) ==
    Mat(A.r, B.c, A.den * B.den,
        [i \in 0 .. A.r - 1 |-> [j \in 0 .. B.c - 1 |->
            CSumTo([k \in 0 .. A.c - 1 |-> CMul(A.m[i][k], B.m[k][j])], A.c - 1)]])

\* np.transpose(A)
Transpose(A) ==
    Mat(A.c, A.r, A.den, [i \in 0 .. A.c - 1 |-> [j \in 0 .. A.r - 1 |-> A.m[j][i]]])

\* np.conjugate(A)
Conjugate(A) ==
    Mat(A.r, A.c, A.den, [i \in 0 .. A.r - 1 |-> [j \in 0 .. A.c - 1 |-> CConj(A.m[i][j])]])

-----------------------------------------------------------------------------
\* Amplitude vectors: len entries amp[i], scale den, and the positions nan
\* that hold NaN (amp is 0 there).

Vec(len, den, amp, nan) == [len |-> len, den |-> den, amp |-> amp, nan |-> nan]

RECURSIVE GcdTo(_, _)
\* gcd of the components of f[0..k]
GcdTo(f, k) ==
    IF k < 0 THEN 0 ELSE Gcd(Gcd(Abs(f[k][1]), Abs(f[k][2])), GcdTo(f, k - 1))

\* The same vector with the largest common factor h of its entries, h^2
\* dividing den, taken out: v / sqrt(den) = (v / h) / sqrt(den / h^2).
Reduced(v) ==
    LET g == GcdTo(v.amp, v.len - 1)
        hs == {h \in 1 .. g : g % h = 0 /\ v.den % (h * h) = 0}
        h == IF g = 0 THEN 1 ELSE CHOOSE x \in hs : \A y \in hs : y <= x
    IN  IF v.nan = 0 .. v.len - 1 THEN Vec(v.len, 1, v.amp, v.nan)
        ELSE IF g = 0 THEN Vec(v.len, 1, v.amp, v.nan)
        ELSE Vec(v.len, v.den \div (h * h),
                 [i \in 0 .. v.len - 1 |-> <<v.amp[i][1] \div h, v.amp[i][2] \div h>>],
                 v.nan)

\* A * v for a matrix A and a column vector v (A.c = v.len checked by the
\* caller).  A NaN anywhere in v makes every entry of the product NaN:
\* each row adds A[i][j] * NaN.
MatVec(A, v) ==
    IF v.nan # {}
    THEN Vec(A.r, 1, [i \in 0 .. A.r - 1 |-> CZero], 0 .. A.r - 1)
    ELSE Vec(A.r, A.den * v.den,
             [i \in 0 .. A.r - 1 |->
                CSumTo([k \in 0 .. A.c - 1 |-> CMul(A.m[i][k], v.amp[k])], A.c - 1)],
             {})

\* sum of |amplitude|^2, as a numerator over v.den
Norm2Num(v) == SumTo([i \in 0 .. v.len - 1 |-> CAbs2(v.amp[i])], v.len - 1)

-----------------------------------------------------------------------------
\* The catalogue of gates and bases: [name, mat] pairs.

\* np.matrix(rows, dtype=complex) / sqrt(den), rows of integers
RealMat(den, rows) ==
    Mat(Len(rows), Len(rows[1]), den,
        [i \in 0 .. Len(rows) - 1 |-> [j \in 0 .. Len(rows[1]) - 1 |-> <<rows[i + 1][j + 1], 0>>]])

\* the same with rows of complex integers
CplxMat(den, rows) ==
    Mat(Len(rows), Len(rows[1]), den,
        [i \in 0 .. Len(rows) - 1 |-> [j \in 0 .. Len(rows[1]) - 1 |-> rows[i + 1][j + 1]]])

Oper(name, mat) == [name |-> name, mat |-> mat]

X == Oper("PAULI_X", RealMat(1, <<<<0, 1>>, <<1, 0>>>>))
Y == Oper("PAULI_Y", CplxMat(1, <<<<CZero, CNeg(CI)>>, <<CI, CZero>>>>))
Z == Oper("PAULI_Z", RealMat(1, <<<<1, 0>>, <<0, -1>>>>))
H == Oper("HADAMARD", RealMat(2, <<<<1, 1>>, <<1, -1>>>>))
\* R(phi) at phi = pi/2: cos(phi) = 0, sin(phi) = 1
R == Oper("PHASE-ROT", CplxMat(1, <<<<COne, CZero>>, <<CZero, CI>>>>))
SWAP == Oper("SWAP", RealMat(1, <<<<1, 0, 0, 0>>, <<0, 0, 1, 0>>, <<0, 1, 0, 0>>, <<0, 0, 0, 1>>>>))
C == Oper("C-NOT", RealMat(1, <<<<1, 0, 0, 0>>, <<0, 1, 0, 0>>, <<0, 0, 0, 1>>, <<0, 0, 1, 0>>>>))
T == Oper("TOFFOLI", RealMat(1, <<
        <<1, 0, 0, 0, 0, 0, 0, 0>>,
        <<0, 1, 0, 0, 0, 0, 0, 0>>,
        <<0, 0, 1, 0, 0, 0, 0, 0>>,
        <<0, 0, 0, 1, 0, 0, 0, 0>>,
        <<0, 0, 0, 0, 1, 0, 0, 0>>,
        <<0, 0, 0, 0, 0, 1, 0, 0>>,
        <<0, 0, 0, 0, 0, 0, 0, 1>>,
        <<0, 0, 0, 0, 0, 0, 1, 0>>>>))

BELL_BASIS ==
    Oper("BELL_BASIS", RealMat(2, <<<<1, 0, 0, 1>>, <<1, 0, 0, -1>>, <<0, 1, 1, 0>>, <<0, 1, -1, 0>>>>))
HDM_BASIS == Oper("HDM_BASIS", RealMat(2, <<<<1, 1>>, <<1, -1>>>>))

-----------------------------------------------------------------------------
\* Utility functions: the permutation of the basis indices.

Ok(val) == [err |-> "None", val |-> val]
Raise(err) == [err |-> err, val |-> <<>>]

\* __shuffled_count: bit b of i goes to bit bitorder[sz-b-1] of shuffled[i]
\* (bitorder is a Python list, here a sequence from 1).  Python refuses a
\* negative shift count whatever the shifted bit is.
ShuffledCount(sz, bitorder) ==
    IF \E b \in 0 .. sz - 1 : bitorder[sz - b] < 0
    THEN Raise("ValueError")
    ELSE Ok([i \in 0 .. 2 ^ sz - 1 |->
                SumTo([b \in 0 .. sz - 1 |-> Bit(i, b) * (2 ^ bitorder[sz - b])], sz - 1)])

\* __rmat_rrmat with rrmat[i] = imat[s] in place of rrmat[s] = imat[i]: the
\* inverse filled in like the forward matrix
RmatRrmat_NoInverse(sz, qbit_reorder) ==
    LET rr == ShuffledCount(sz, qbit_reorder)
        d == 2 ^ sz
        imat == Eye(d)
    IN  IF rr.err # "None" THEN Raise(rr.err)
        ELSE IF \E i \in 0 .. d - 1 : rr.val[i] >= d THEN Raise("IndexError")
        ELSE Ok([rmat |-> Mat(d, d, 1, [i \in 0 .. d - 1 |-> imat.m[rr.val[i]]]),
                 rrmat |-> Mat(d, d, 1, [i \in 0 .. d - 1 |-> imat.m[rr.val[i]]])])

\* __rmat_rrmat: rmat[i] = imat[s] and rrmat[s] = imat[i] for s = rr[i], i
\* ascending: a row of rrmat written twice keeps the last write, a row never
\* written keeps the identity's.  imat[s] past the last row is an IndexError.
RmatRrmat(sz, qbit_reorder) ==
    LET rr == ShuffledCount(sz, qbit_reorder)
        d == 2 ^ sz
        imat == Eye(d)
        last(s) == LET hit == {i \in 0 .. d - 1 : rr.val[i] = s}
                   IN  IF hit = {} THEN s ELSE CHOOSE i \in hit : \A k \in hit : k <= i
    IN  IF rr.err # "None" THEN Raise(rr.err)
        ELSE IF \E i \in 0 .. d - 1 : rr.val[i] >= d THEN Raise("IndexError")
        ELSE Ok([rmat |-> Mat(d, d, 1, [i \in 0 .. d - 1 |-> imat.m[rr.val[i]]]),
                 rrmat |-> Mat(d, d, 1, [s \in 0 .. d - 1 |-> imat.m[last(s)]])])

InList(x, list) == \E k \in 1 .. Len(list) : list[k] = x

RECURSIVE RealignFrom(_, _)
\* the loop of __qbit_realign_list from index i down to 0
RealignFrom(reord_list, i) ==
    IF i < 0 THEN reord_list
    ELSE RealignFrom(IF InList(i, reord_list) THEN reord_list ELSE Append(reord_list, i), i - 1)

\* __qbit_realign_list
QbitRealignList(sz, qbit_list) == RealignFrom(qbit_list, sz - 1)

\* __aligned_op with a_op = rmat * op * rrmat: the conjugation the wrong way
\* round
AlignedOp_Swapped(sz, op, qbit_list) ==
    LET qbit_reorder == QbitRealignList(sz, qbit_list)
        pair == RmatRrmat(sz, qbit_reorder)
    IN  IF pair.err # "None" THEN Raise(pair.err)
        ELSE Ok(MatMul(MatMul(pair.val.rmat, op), pair.val.rrmat))

\* __aligned_op
AlignedOp(sz, op, qbit_list) ==
    LET qbit_reorder == QbitRealignList(sz, qbit_list)
        pair == RmatRrmat(sz, qbit_reorder)
    IN  IF pair.err # "None" THEN Raise(pair.err)
        ELSE Ok(MatMul(MatMul(pair.val.rrmat, op), pair.val.rmat))

\* __stretched_mat
StretchedMat(sz, oper, qbit_list) ==
    LET op == oper.mat
    IN  IF op.c # op.r THEN Raise("QClibError")
        ELSE IF 2 ^ Len(qbit_list) # op.r THEN Raise("QClibError")
        ELSE AlignedOp(sz, Kron(op, Eye(2 ^ (sz - Len(qbit_list)))), qbit_list)

-----------------------------------------------------------------------------
\* The arguments the calls are made with.

RECURSIVE ListsOfLen(_, _)
\* the lists of k qubit indices of a register of sz qubits
ListsOfLen(sz, k) ==
    IF k = 0 THEN {<<>>}
    ELSE {Append(l, q) : l \in ListsOfLen(sz, k - 1), q \in 0 .. sz - 1}

ValidList(sz, l) ==
    /\ \A k \in 1 .. Len(l) : l[k] \in 0 .. sz - 1
    /\ \A j, k \in 1 .. Len(l) : j # k => l[j] # l[k]

ValidLists(sz) == {l \in UNION {ListsOfLen(sz, k) : k \in 1 .. sz} : ValidList(sz, l)}

\* lists with a repeated or an out-of-range index, no longer than the register
BadLists(sz) ==
    {<<sz>>, <<0 - 1>>} \cup (IF sz >= 2 THEN {<<0, 0>>, <<1, sz>>} ELSE {})

QbitLists(sz) == ValidLists(sz) \cup BadLists(sz)

\* operators: the catalogue's gates and one that is not square
BadOper == Oper("NOT-SQUARE", RealMat(1, <<<<1, 0>>>>))
Gates == {X, Y, Z, H, R, SWAP, C, T, BadOper}

\* bases: the catalogue's two, and matrices a caller may pass: rows that are
\* not orthonormal, real (SKEW) and complex (CORTH, whose product with its
\* transpose is the identity all the same), and one that is not square
SKEW_BASIS == Oper("SKEW_BASIS", RealMat(1, <<<<1, 1>>, <<0, 1>>>>))
CORTH_BASIS == Oper("CORTH_BASIS", CplxMat(3, <<<<<<2, 0>>, CI>>, <<CNeg(CI), <<2, 0>>>>>>))
FLAT_BASIS == Oper("FLAT_BASIS", RealMat(1, <<<<1, 0>>>>))
Bases == {HDM_BASIS, BELL_BASIS, SKEW_BASIS, CORTH_BASIS, FLAT_BASIS}

Named(ops, name) == CHOOSE o \in ops : o.name = name

\* __rmat_rrmat(__qbit_realign_list(qbit_list)) and __stretched_mat(oper,
\* qbit_list), tabulated once over the arguments the calls are made with
PermPairOf ==
    [sz \in 1 .. MaxN |-> [l \in QbitLists(sz) |-> RmatRrmat(sz, QbitRealignList(sz, l))]]
StretchedMatOf ==
    [sz \in 1 .. MaxN |-> [name \in {g.name : g \in Gates} |-> [l \in QbitLists(sz) |->
        StretchedMat(sz, Named(Gates, name), l)]]]

\* the column vector with entries f over sqrt(den)
ColVec(len, den, f) == Vec(len, den, [i \in 0 .. len - 1 |-> f[i]], {})

BasisKet(len, x) == ColVec(len, 1, [i \in 0 .. len - 1 |-> IF i = x THEN COne ELSE CZero])

\* initstate arguments: the basis states, (|0..0> + |1..1>)/sqrt(2),
\* (|0..0> + i|0..01>)/sqrt(2), a vector of norm 2 and one of the wrong shape
InitStates(nq) ==
    LET d == 2 ^ nq
    IN  {BasisKet(d, x) : x \in 0 .. d - 1}
        \cup {ColVec(d, 2, [i \in 0 .. d - 1 |-> IF i \in {0, d - 1} THEN COne ELSE CZero]),
              ColVec(d, 2, [i \in 0 .. d - 1 |->
                                IF i = 0 THEN COne ELSE IF i = 1 THEN CI ELSE CZero]),
              ColVec(d, 1, [i \in 0 .. d - 1 |-> IF i \in {0, 1} THEN COne ELSE CZero]),
              BasisKet(2 * d, 0)}

\* prepqbits arguments: every qubit (1, 1), not normalized; one list too long
PrepQbits(nq) ==
    LET plus == ColVec(2, 1, [i \in 0 .. 1 |-> COne])
    IN  {[i \in 1 .. nq |-> plus], [i \in 1 .. nq + 1 |-> plus]}

-----------------------------------------------------------------------------
\* The constructor.

None == <<>>
Some(x) == <<x>>

\* np.kron of two column vectors
KronVec(a, b) ==
    Vec(a.len * b.len, a.den * b.den,
        [i \in 0 .. a.len * b.len - 1 |-> CMul(a.amp[i \div b.len], b.amp[i % b.len])], {})

\* np.transpose(np.matrix([1,0],dtype=complex))
Ket0 == Vec(2, 1, [i \in 0 .. 1 |-> IF i = 0 THEN COne ELSE CZero], {})

RECURSIVE KronDown(_, _, _)
\* for i in reversed(range(k)): acc = np.kron(acc, qbit[i]); qbit from 0 is
\* the sequence qbits from 1
KronDown(acc, qbits, k) ==
    IF k <= 0 THEN acc ELSE KronDown(KronVec(acc, qbits[k]), qbits, k - 1)

\* v / np.sqrt(p) with p = num / v.den: the entries over sqrt(num); 0/0 is NaN
DivSqrt(v, num) ==
    IF num = 0 THEN Vec(v.len, 1, [i \in 0 .. v.len - 1 |-> CZero], 0 .. v.len - 1)
    ELSE Vec(v.len, num, v.amp, {})

\* qcsim.__init__: the state built from initstate, from prepqbits or |0..0>
QcsimInit(nq, initstate, prepqbits) ==
    IF initstate # None
    THEN LET v == initstate[1]
             p == Norm2Num(v)
         IN  IF v.len # 2 ^ nq THEN Raise("QClibError")
             ELSE IF Abs(p - v.den) * MaxErrInv > v.den THEN Raise("QClibError")
             ELSE Ok(v)
    ELSE IF prepqbits # None
    THEN LET qs == prepqbits[1]
             prepstate == KronDown(qs[nq], qs, nq - 1)
         IN  IF Len(qs) # nq THEN Raise("QClibError")
             ELSE Ok(DivSqrt(prepstate, Norm2Num(prepstate)))
    ELSE Ok(KronDown(Ket0, [i \in 1 .. nq |-> Ket0], nq - 1))

-----------------------------------------------------------------------------
\* qgate and qmeasure as functions of the state and the arguments.

\* qgate, lines 69-70: the new sys_state, or the error and the state as it was
QGate(sz, state, oper, qbit_list) ==
    LET a_op == StretchedMatOf[sz][oper.name][qbit_list]
    IN  IF a_op.err # "None" THEN [err |-> a_op.err, state |-> state]
        ELSE [err |-> "None", state |-> Reduced(MatVec(a_op.val, state))]

\* the basis check of qmeasure, lines 91-101: bmat times its transpose is
\* the identity within maxerr
BasisIsOk(bmat) ==
    LET pmat == MatMul(bmat, Transpose(bmat))
    IN  \A i \in 0 .. bmat.r - 1 : \A j \in 0 .. bmat.c - 1 :
            IF i # j
            THEN ~ExceedsTol(CAbs2(pmat.m[i][j]), bmat.den, MaxErrInv)
            ELSE ~ExceedsTol(CAbs2(CAdd(pmat.m[i][j], <<0 - bmat.den, 0>>)), bmat.den, MaxErrInv)

\* i & mask for 0 <= i, mask < 2^sz
BitAnd(sz, i, mask) == SumTo([b \in 0 .. sz - 1 |-> Bit(i, b) * Bit(mask, b) * (2 ^ b)], sz - 1)

\* qbitmask, lines 118-120
QbitMask(sz, list_len) == SumTo([b \in 0 .. list_len - 1 |-> 2 ^ (sz - b - 1)], list_len - 1)

\* prob, lines 124-127: the numerators over v.den, and the buckets whose sum
\* took in a NaN
Prob(sz, list_len, v) ==
    LET qbitmask == QbitMask(sz, list_len)
        shift_bits == sz - list_len
        idx(i) == BitAnd(sz, i, qbitmask) \div (2 ^ shift_bits)
    IN  [num |-> [k \in 0 .. 2 ^ list_len - 1 |->
                    SumTo([i \in 0 .. v.len - 1 |-> IF idx(i) = k THEN CAbs2(v.amp[i]) ELSE 0],
                          v.len - 1)],
         nan |-> {idx(i) : i \in v.nan}]

\* the loop test with toss >= cumprob: the usual sampler, closed below
TossHits_ClosedBelow(prob, den, tn, i) ==
    LET cumprob == SumTo(prob.num, i - 1)
    IN  /\ \A k \in 0 .. i : k \notin prob.nan
        /\ tn * den >= cumprob * TossDen
        /\ tn * den <= (cumprob + prob.num[i]) * TossDen

\* the loop test of line 142 for bucket i: toss = tn / TossDen, the
\* probabilities num / den; a comparison with NaN is false
TossHits(prob, den, tn, i) ==
    LET cumprob == SumTo(prob.num, i - 1)
    IN  /\ \A k \in 0 .. i : k \notin prob.nan
        /\ tn * den > cumprob * TossDen
        /\ tn * den <= (cumprob + prob.num[i]) * TossDen

\* sel, lines 138-144: the last bucket the loop test holds for, by default
\* the last bucket
Select(prob, den, tn) ==
    LET n == DOMAIN prob.num
        hits == {i \in n : TossHits(prob, den, tn, i)}
        top == CHOOSE i \in n : \A k \in n : k <= i
    IN  IF hits = {} THEN top ELSE CHOOSE i \in hits : \A k \in hits : k <= i

\* meas_val, lines 146-151
MeasVal(list_len, sel) == [j \in 1 .. list_len |-> Bit(sel, list_len - j)]

\* the collapse, lines 154-159
Collapse(sz, list_len, v, prob, sel) ==
    LET qbitmask == QbitMask(sz, list_len)
        to_match == sel * (2 ^ (sz - list_len))
        hit == {i \in 0 .. v.len - 1 : BitAnd(sz, i, qbitmask) = to_match}
        bad == sel \in prob.nan \/ prob.num[sel] = 0
    IN  Vec(v.len, IF bad THEN 1 ELSE prob.num[sel],
            [i \in 0 .. v.len - 1 |-> IF i \in hit /\ ~bad THEN v.amp[i] ELSE CZero],
            IF bad THEN hit ELSE {})

\* what a call leaves behind: the error raised ("None" when it returns), the
\* state sys_state is left in, and qmeasure's locals (prob as numerators
\* over pden) where they were computed
Result(err, state, prob, pden, sel, meas_val, toss) ==
    [err |-> err, state |-> state, prob |-> prob, pden |-> pden, sel |-> sel,
     meas_val |-> meas_val, toss |-> toss]

NoProb == [num |-> <<>>, nan |-> {}]
Failed(err, state) == Result(err, state, NoProb, 1, 0 - 1, <<>>, 0 - 1)

\* qmeasure up to the draw, lines 82-134: the error raised on the way, or
\* the state in the basis measured in (st2), its probabilities and the pair
\* of permutations
MeasurePrepared(sz, state, qbit_list, basis) ==
    LET bmat == basis[1].mat
        list_len == Len(qbit_list)
        pair == PermPairOf[sz][qbit_list]
        st1 == MatVec(pair.val.rmat, state)
        full_sz_basis_mat == Kron(bmat, Eye(2 ^ (sz - list_len)))
        st2 == IF basis # None THEN MatVec(full_sz_basis_mat, st1) ELSE st1
        prob == Prob(sz, list_len, st2)
        totprob == SumTo(prob.num, 2 ^ list_len - 1)
    IN  IF basis # None /\ bmat.r # bmat.c THEN Failed("QClibError", state)
        ELSE IF basis # None /\ ~BasisIsOk(bmat) THEN Failed("QClibError", state)
        ELSE IF pair.err # "None" THEN Failed(pair.err, state)
        ELSE IF basis # None /\ full_sz_basis_mat.c # st1.len
        THEN Failed("ValueError", Reduced(st1))
        ELSE IF prob.nan = {} /\ Abs(totprob - st2.den) * MaxProbErrInv > st2.den
        THEN Failed("QClibError", Reduced(st2))
        ELSE [err |-> "None", state |-> st2, prob |-> prob, rrmat |-> pair.val.rrmat]

\* qmeasure from the draw on, lines 137-175; toss is the draw tn / TossDen
MeasureDrawn(sz, qbit_list, basis, prep, tn) ==
    LET list_len == Len(qbit_list)
        sel == Select(prep.prob, prep.state.den, tn)
        st3 == Collapse(sz, list_len, prep.state, prep.prob, sel)
        invbasis == Conjugate(Transpose(basis[1].mat))
        st4 == IF basis # None
               THEN MatVec(Kron(invbasis, Eye(2 ^ (sz - list_len))), st3)
               ELSE st3
        st5 == MatVec(prep.rrmat, st4)
    IN  Result("None", Reduced(st5), prep.prob, prep.state.den, sel,
               MeasVal(list_len, sel), tn)

\* qmeasure, lines 77-175
QMeasure(sz, state, qbit_list, basis, tn) ==
    LET prep == MeasurePrepared(sz, state, qbit_list, basis)
    IN  IF prep.err # "None" THEN prep ELSE MeasureDrawn(sz, qbit_list, basis, prep, tn)

-----------------------------------------------------------------------------
\* The simulator object and the calls made on it.

VARIABLES nqbits, sys_state, stepcount, call

vars == <<nqbits, sys_state, stepcount, call>>

Call(op, name, qbit_list, pre, r) ==
    [op |-> op, oper |-> name, qbit_list |-> qbit_list, pre |-> pre, err |-> r.err,
     prob |-> r.prob, pden |-> r.pden, sel |-> r.sel, meas_val |-> r.meas_val,
     toss |-> r.toss]

\* a register of at most maxn qubits as the constructor leaves it
Constructed(maxn) ==
    \E nq \in 1 .. maxn :
        \E args \in {<<Some(v), None>> : v \in InitStates(nq)}
                    \cup {<<None, Some(q)>> : q \in PrepQbits(nq)}
                    \cup {<<None, None>>} :
            LET r == QcsimInit(nq, args[1], args[2])
            IN  /\ r.err = "None"
                /\ nqbits = nq
                /\ sys_state = Reduced(r.val)
                /\ stepcount = 0
                /\ call = Call("init", "None", <<>>, Reduced(r.val), Failed("None", r.val))

Init == Constructed(MaxSeqN)

\* a driver stops at the first error (the except clause of lines 408-409)
Running == call.err = "None" /\ stepcount < MaxSteps

qgate(oper, qbit_list) ==
    /\ Running
    /\ LET r == QGate(nqbits, sys_state, oper, qbit_list)
       IN  /\ stepcount' = stepcount + 1
           /\ sys_state' = r.state
           /\ call' = Call("qgate", oper.name, qbit_list, sys_state, Failed(r.err, r.state))
    /\ UNCHANGED nqbits

\* rnd.random() is drawn at line 137, by a call that got that far
qmeasure(qbit_list, basis) ==
    /\ Running
    /\ LET prep == MeasurePrepared(nqbits, sys_state, qbit_list, basis)
       IN  \E r \in IF prep.err # "None" THEN {prep}
                    ELSE {MeasureDrawn(nqbits, qbit_list, basis, prep, tn) :
                            tn \in 0 .. TossDen - 1} :
               /\ stepcount' = stepcount + 1
               /\ sys_state' = r.state
               /\ call' = Call("qmeasure", IF basis = None THEN "None" ELSE basis[1].name,
                               qbit_list, sys_state, r)
    /\ UNCHANGED nqbits

\* a call of qgate, of qmeasure, with any of the arguments
Gate == \E oper \in Gates, qbit_list \in QbitLists(nqbits) : qgate(oper, qbit_list)
Measure ==
    \E qbit_list \in QbitLists(nqbits), basis \in {None} \cup {Some(b) : b \in Bases} :
        qmeasure(qbit_list, basis)

Next ==
    \/ Gate
    \/ Measure

\* Sequences of at most MaxSteps calls on a register of at most MaxSeqN qubits.
Spec == Init /\ [][Next]_vars

\* One call on a freshly constructed register of at most MaxN qubits, in any
\* state the constructor accepts.
InitCall == Constructed(MaxN)
Fresh == call.op = "init"
NextCall ==
    \/ Fresh /\ Gate
    \/ Fresh /\ Measure
SpecCall == InitCall /\ [][NextCall]_vars

-----------------------------------------------------------------------------
\* Notions the properties are stated with.

Dim == 2 ^ nqbits
IsMeasure == call.op = "qmeasure"
IsGate == call.op = "qgate"
Returned == call.err = "None"
StandardBasis == call.oper = "None"
GivenBasis == Named(Bases, call.oper).mat

\* len amplitudes, none of them NaN, squared magnitudes summing to 1
Normalized(v, len) == v.len = len /\ v.nan = {} /\ Norm2Num(v) = v.den

\* a / sqrt(da) = b / sqrt(db) for complex integers a, b and da, db > 0:
\* the same direction and the same squared length
ScaledEq(a, da, b, db) ==
    /\ a[1] * b[2] = a[2] * b[1]
    /\ a[1] * b[1] + a[2] * b[2] >= 0
    /\ CAbs2(a) * db = CAbs2(b) * da

\* a 0/1 matrix with one 1 in every row and every column
IsPermutationMatrix(A) ==
    /\ A.r = A.c /\ A.den = 1
    /\ \A i \in 0 .. A.r - 1 : \A j \in 0 .. A.c - 1 : A.m[i][j] \in {CZero, COne}
    /\ \A i \in 0 .. A.r - 1 : Cardinality({j \in 0 .. A.c - 1 : A.m[i][j] = COne}) = 1
    /\ \A j \in 0 .. A.c - 1 : Cardinality({i \in 0 .. A.r - 1 : A.m[i][j] = COne}) = 1

\* the rows of A are orthonormal vectors: A times its conjugate transpose is
\* the identity
RowsOrthonormal(A) ==
    LET g == MatMul(A, Conjugate(Transpose(A)))
    IN  \A i \in 0 .. A.r - 1 : \A j \in 0 .. A.r - 1 :
            g.m[i][j] = (IF i = j THEN <<A.den, 0>> ELSE CZero)

\* the index into a small operator that the bits of x at the qubits of list
\* spell, list[1] the most significant
SmallIndex(x, list) ==
    SumTo([j \in 0 .. Len(list) - 1 |-> Bit(x, list[Len(list) - j]) * (2 ^ j)], Len(list) - 1)

\* x with its bits at the qubits of list replaced by the bits of a
WithBits(sz, x, list, a) ==
    SumTo([q \in 0 .. sz - 1 |->
              (IF \E k \in 1 .. Len(list) : list[k] = q
               THEN Bit(a, Len(list) - (CHOOSE k \in 1 .. Len(list) : list[k] = q))
               ELSE Bit(x, q)) * (2 ^ q)], sz - 1)

\* whether the pair built for qbit_list on sz qubits is a pair of mutual
\* inverses, for every sz and every valid qbit_list
MutualInverses ==
    [sz \in 1 .. MaxN |-> [qbit_list \in ValidLists(sz) |->
        LET ordering == QbitRealignList(sz, qbit_list)
            shuffled == ShuffledCount(sz, ordering)
            pair == RmatRrmat(sz, ordering)
            d == 2 ^ sz
        IN  /\ Len(ordering) = sz /\ ValidList(sz, ordering)
            /\ shuffled.err = "None"
            /\ {shuffled.val[i] : i \in 0 .. d - 1} = 0 .. d - 1
            /\ pair.err = "None"
            /\ MatMul(pair.val.rrmat, pair.val.rmat) = Eye(d)
            /\ \A x \in 0 .. d - 1 :
                   MatVec(pair.val.rrmat, MatVec(pair.val.rmat, BasisKet(d, x)))
                       = BasisKet(d, x)]]

-----------------------------------------------------------------------------
\* C1: for every register size and every valid qubit list, the pair built
\* by __rmat_rrmat from the shuffled count of the full ordering is a pair of
\* mutual inverses: the ordering is a permutation of the qubits, i ->
\* shuffled[i] is a bijection on [0, 2^n), rrmat * rmat is the identity and
\* forward then inverse returns every basis state to itself.
C1_PermutationPairInverse ==
    (call.op # "init" /\ Returned /\ ValidList(nqbits, call.qbit_list)) =>
        MutualInverses[nqbits][call.qbit_list]

\* a measurement of three qubits in an order whose index permutation is not
\* its own inverse
C1_Witness ==
    /\ nqbits = 3 /\ IsMeasure /\ Returned /\ call.qbit_list = <<0, 2, 1>>
    /\ PermPairOf[3][<<0, 2, 1>>].val.rmat # PermPairOf[3][<<0, 2, 1>>].val.rrmat

\* C2: a gate that is a permutation matrix P, applied to k distinct
\* in-range qubits (any order, adjacent or not) of a register in the basis
\* state x, leaves the basis state whose bits at the target qubits are P's
\* image of x's bits there (the first target the most significant), the
\* other bits unchanged.
C2_PermutationGateOnBasisState ==
    (/\ IsGate
     /\ IsPermutationMatrix(Named(Gates, call.oper).mat)
     /\ ValidList(nqbits, call.qbit_list)
     /\ 2 ^ Len(call.qbit_list) = Named(Gates, call.oper).mat.r) =>
        \A x \in 0 .. Dim - 1 :
            LET P == Named(Gates, call.oper).mat
                a == SmallIndex(x, call.qbit_list)
                image == CHOOSE b \in 0 .. P.r - 1 : P.m[b][a] = COne
            IN  call.pre = BasisKet(Dim, x)
                => /\ Returned
                   /\ sys_state = BasisKet(Dim, WithBits(nqbits, x, call.qbit_list, image))

\* C-NOT with control qubit 2 and target qubit 0 on |100> gives |101>
C2_Witness ==
    /\ nqbits = 3 /\ IsGate /\ call.oper = "C-NOT" /\ call.qbit_list = <<2, 0>>
    /\ call.pre = BasisKet(8, 4) /\ sys_state = BasisKet(8, 5)

\* C3: a measurement in a basis whose matrix is square but whose rows are
\* not orthonormal fails, and leaves the amplitude vector as it was.
C3_NonOrthonormalBasisRejected ==
    (/\ IsMeasure /\ ~StandardBasis
     /\ GivenBasis.r = GivenBasis.c
     /\ ~RowsOrthonormal(GivenBasis))
    => (~Returned /\ sys_state = call.pre)

\* C4: a gate or a measurement on a qubit list with a repeated or an
\* out-of-range index fails, and leaves the amplitude vector as it was.
C4_InvalidQubitListRejected ==
    (call.op # "init" /\ ~ValidList(nqbits, call.qbit_list))
    => (~Returned /\ sys_state = call.pre)

\* C5: a measurement that fails because of its arguments leaves the
\* amplitude vector as it was; in particular one on a valid qubit list in a
\* square orthonormal basis of a dimension other than 2^len(qbit_list).
C5_FailedMeasureLeavesState ==
    (/\ IsMeasure /\ ~StandardBasis
     /\ ValidList(nqbits, call.qbit_list)
     /\ GivenBasis.r = GivenBasis.c
     /\ RowsOrthonormal(GivenBasis)
     /\ GivenBasis.r # 2 ^ Len(call.qbit_list))
    => (~Returned /\ sys_state = call.pre)

\* C6: on two qubits in the state (|00> + |11>)/sqrt(2), a measurement of
\* qubit 0 returns 0 or 1, and the measurement of qubit 1 that follows it
\* returns the same bit, whatever the two draws.
C6_BellMeasurementsAgree ==
    [][(/\ IsMeasure /\ StandardBasis /\ Returned
        /\ nqbits = 2
        /\ call.pre = ColVec(4, 2, [i \in 0 .. 3 |-> IF i \in {0, 3} THEN COne ELSE CZero])
        /\ call.qbit_list = <<0>>
        /\ call'.op = "qmeasure" /\ call'.oper = "None" /\ call'.err = "None"
        /\ call'.qbit_list = <<1>>)
       => (call.meas_val \in {<<0>>, <<1>>} /\ call'.meas_val = call.meas_val)]_vars

\* C7: after any sequence of calls that returned (the gates unitary), the
\* last of them on a valid qubit list, the amplitude vector has 2^n entries
\* whose squared magnitudes sum to 1.
C7_StateStaysNormalized ==
    (Returned /\ (call.op = "init" \/ ValidList(nqbits, call.qbit_list)))
    => Normalized(sys_state, Dim)

\* C8: a measurement that returns has selected the bucket i whose interval
\* (cumulative_i, cumulative_i + prob_i] holds the draw t, or the last
\* bucket when no interval holds t.
C8_SamplingRule ==
    (IsMeasure /\ Returned /\ call.prob.nan = {}) =>
        LET k == Len(call.qbit_list)
            cumulative(i) == SumTo(call.prob.num, i - 1)
            holds(i) == /\ cumulative(i) * TossDen < call.toss * call.pden
                        /\ call.toss * call.pden <= (cumulative(i) + call.prob.num[i]) * TossDen
        IN  /\ call.toss \in 0 .. TossDen - 1
            /\ DOMAIN call.prob.num = 0 .. 2 ^ k - 1
            /\ \A i \in 0 .. 2 ^ k - 1 : holds(i) => call.sel = i
            /\ (\A i \in 0 .. 2 ^ k - 1 : ~holds(i)) => call.sel = 2 ^ k - 1

\* the draw 1/2 on the buckets 1/2, 1/2 falls on the closed end of the first
C8_Witness ==
    /\ IsMeasure /\ Returned /\ call.toss * 2 = TossDen
    /\ call.pden = 2 /\ call.prob.num = [i \in 0 .. 1 |-> 1] /\ call.sel = 0

\* C9: after a standard-basis measurement of distinct in-range qubits that
\* returns the list b, every amplitude at an index whose bit at qubit
\* qbit_list[j] differs from b[j] is zero, and every other amplitude is its
\* value before the call divided by the square root of the selected
\* bucket's probability.
C9_CollapseInOriginalOrder ==
    (IsMeasure /\ StandardBasis /\ Returned /\ ValidList(nqbits, call.qbit_list)) =>
        LET b == call.meas_val
            agrees(x) == \A j \in 1 .. Len(call.qbit_list) : Bit(x, call.qbit_list[j]) = b[j]
            bucket == call.prob.num[call.sel]
        IN  /\ Len(b) = Len(call.qbit_list)
            /\ \A x \in 0 .. Dim - 1 :
                   /\ x \notin sys_state.nan
                   /\ ~agrees(x) => sys_state.amp[x] = CZero
                   /\ agrees(x) =>
                          /\ bucket > 0
                          /\ ScaledEq(sys_state.amp[x], sys_state.den * call.pden,
                                      call.pre.amp[x], call.pre.den * bucket)

\* C10: the bucket a measurement selects has a probability above zero, so
\* the collapse never divides by sqrt(0).
C10_SelectedBucketPositive ==
    (IsMeasure /\ Returned /\ call.prob.nan = {}) => call.prob.num[call.sel] > 0

====
